---- MODULE Spec2Model ----
(***************************************************************************)
(* Schema resolution of tovacinni/tyro.                                    *)
(*                                                                         *)
(*   Part I   dcargs/_parsers.py: ParserDefinition.from_dataclass as a     *)
(*            call-stack machine (one frame per active call) and           *)
(*            ParserDefinition.apply.                                      *)
(*   Part II  tyro/_fields.py: FieldDefinition and the structural          *)
(*            classifier _try_field_list_from_callable, as operators.      *)
(***************************************************************************)
EXTENDS Integers, Sequences, FiniteSets, TLC

VARIABLES
    top,              \* the type handed to the top-level from_dataclass call
    rootFields,       \* declared fields of the record type Root
    stack,            \* active from_dataclass calls, innermost last
    role_from_field,  \* the dict shared by one top-level resolution
    result,           \* <<>> or <<ParserDefinition>> returned by the top call
    error,            \* "" or the assertion that failed
    parser,           \* <<>> or <<the argparse parser after apply>>
    pc,               \* "idle" | "running" | "done" | "raised" | "applied"
    op,               \* Part II: the function of _fields.py called last
    call,             \* Part II: its arguments
    ret               \* Part II: what it returned or raised

fieldVars == <<op, call, ret>>
parserVars == <<top, rootFields, stack, role_from_field, result, error, parser, pc>>

(***************************************************************************)
(* Bounds                                                                  *)
(***************************************************************************)
\* number of declared fields of the generated record type Root
NumRootFields == 2
\* longest list, tuple or dict given as a default instance
MaxDefaultLen == 2

(***************************************************************************)
(* Python values used by Part I                                            *)
(***************************************************************************)
\* Optional[x]: None is <<>>, a value x is <<x>>.
None == <<>>
Some(x) == <<x>>

Prim(n) == [k |-> "prim", n |-> n, args |-> <<>>]
TypeVarT(n) == [k |-> "typevar", n |-> n, args |-> <<>>]
\* a dataclass, or (args non-empty) a generic alias of it
Dataclass(n, args) == [k |-> "dataclass", n |-> n, args |-> args]
UnionT(args) == [k |-> "union", n |-> "Union", args |-> args]
NoneType == Prim("NoneType")

Field(name, type) ==
    [name |-> name, type |-> type, init |-> TRUE, has_default |-> FALSE]
FieldNoInit(name, type) ==
    [name |-> name, type |-> type, init |-> FALSE, has_default |-> TRUE]
FieldWithDefault(name, type) ==
    [name |-> name, type |-> type, init |-> TRUE, has_default |-> TRUE]

\* a Python tuple and a Python list holding the same items are different values
PyTuple(items) == [py |-> "tuple", items |-> items]
PyList(items) == [py |-> "list", items |-> items]

NESTED_DATACLASS_DELIMETER == "."

(***************************************************************************)
(* The record types of the runs.  __name__ is the declared name of the     *)
(* class; two different classes may declare the same name.                 *)
(***************************************************************************)
T == TypeVarT("T")
ScalarType == TypeVarT("ScalarType")

ClassTable ==
    [Pair |-> [name |-> "Pair", params |-> <<>>,
               fields |-> <<Field("a", Prim("int")), Field("b", Prim("int"))>>],
     Line |-> [name |-> "Line", params |-> <<>>,
               fields |-> <<Field("point", Dataclass("Pair", <<>>)),
                            Field("label", Prim("str"))>>],
     Point3 |-> [name |-> "Point3", params |-> <<"ScalarType">>,
                 fields |-> <<Field("x", ScalarType), Field("y", ScalarType),
                              Field("z", ScalarType),
                              Field("frame_id", Prim("str"))>>],
     SimpleGeneric |->
        [name |-> "SimpleGeneric", params |-> <<>>,
         fields |-> <<Field("point_continuous",
                            Dataclass("Point3", <<Prim("float")>>)),
                      Field("point_discrete",
                            Dataclass("Point3", <<Prim("int")>>))>>],
     Triangle |->
        [name |-> "Triangle", params |-> <<"ScalarType">>,
         fields |-> <<Field("a", Dataclass("Point3", <<ScalarType>>)),
                      Field("b", Dataclass("Point3", <<ScalarType>>)),
                      Field("c", Dataclass("Point3", <<ScalarType>>))>>],
     Mesh |->
        [name |-> "Mesh", params |-> <<"T">>,
         fields |-> <<Field("face", Dataclass("Triangle", <<T>>)),
                      Field("scale", T)>>],
     CommandOne |-> [name |-> "CommandOne", params |-> <<>>,
                     fields |-> <<Field("a", Prim("int"))>>],
     CommandTwo |-> [name |-> "CommandTwo", params |-> <<>>,
                     fields |-> <<Field("b", Prim("int"))>>],
     \* a second class declared with the name CommandOne (another module)
     OtherCommandOne |-> [name |-> "CommandOne", params |-> <<>>,
                          fields |-> <<Field("c", Prim("int"))>>],
     CommandThree |->
        [name |-> "CommandThree", params |-> <<>>,
         fields |-> <<FieldWithDefault("flag", Prim("bool")),
                      Field("sub", UnionT(<<Dataclass("CommandOne", <<>>),
                                            Dataclass("CommandTwo", <<>>)>>))>>],
     Subparser |->
        [name |-> "Subparser", params |-> <<>>,
         fields |-> <<Field("command",
                            UnionT(<<Dataclass("CommandOne", <<>>),
                                     Dataclass("CommandTwo", <<>>)>>))>>],
     Holder |-> [name |-> "Holder", params |-> <<>>,
                 fields |-> <<Field("inner", Dataclass("Root", <<Prim("int")>>))>>]]

Class(cid) ==
    IF cid = "Root"
    THEN [name |-> "Root", params |-> <<"T">>, fields |-> rootFields]
    ELSE ClassTable[cid]

RootFieldNames == <<"f1", "f2", "f3", "f4">>

\* the types a declared field of Root may have
RootFieldTypes ==
    { Prim("int"), T,
      Dataclass("Pair", <<>>), Dataclass("Line", <<>>),
      Dataclass("Point3", <<T>>), Dataclass("Point3", <<Prim("int")>>),
      Dataclass("Triangle", <<T>>),
      Dataclass("Root", <<T>>), Dataclass("Holder", <<>>),
      Dataclass("Subparser", <<>>),
      UnionT(<<Dataclass("CommandOne", <<>>), Dataclass("CommandTwo", <<>>)>>),
      UnionT(<<Dataclass("CommandOne", <<>>), Dataclass("CommandTwo", <<>>),
               NoneType>>),
      UnionT(<<Dataclass("CommandOne", <<>>),
               Dataclass("OtherCommandOne", <<>>)>>),
      UnionT(<<Dataclass("CommandThree", <<>>), Dataclass("CommandOne", <<>>)>>),
      UnionT(<<Dataclass("Pair", <<>>), Dataclass("Root", <<T>>)>>),
      UnionT(<<Dataclass("Holder", <<>>), Dataclass("Pair", <<>>)>>),
      UnionT(<<Dataclass("Pair", <<>>), NoneType>>),
      UnionT(<<Dataclass("Pair", <<>>), Prim("int")>>) }

RootFieldChoices(name) ==
    { Field(name, t) : t \in RootFieldTypes }
    \cup { FieldWithDefault(name, Prim("int")),
           FieldNoInit(name, Dataclass("Root", <<T>>)),
           FieldNoInit(name, UnionT(<<Dataclass("CommandOne", <<>>),
                                      Dataclass("CommandTwo", <<>>)>>)) }

\* the top-level calls besides Root[float]
FixedTops ==
    { Dataclass("Line", <<>>), Dataclass("SimpleGeneric", <<>>),
      Dataclass("Triangle", <<Prim("float")>>),
      Dataclass("Mesh", <<Prim("float")>>) }

RootTop == Dataclass("Root", <<Prim("float")>>)

(***************************************************************************)
(* Python dicts keep insertion order; assigning to a key already present   *)
(* replaces its value in place.                                            *)
(***************************************************************************)
DictKeys(d) == { d[i].key : i \in DOMAIN d }
\* every assignment adds an entry of its own
DictSetAppending(d, key, value) == Append(d, [key |-> key, value |-> value])

DictSet(d, key, value) ==
    IF key \in DictKeys(d)
    THEN [i \in DOMAIN d |->
            IF d[i].key = key THEN [key |-> key, value |-> value] ELSE d[i]]
    ELSE Append(d, [key |-> key, value |-> value])
EmptyMap == [tv \in {} |-> tv]

(***************************************************************************)
(* _resolver, _arguments: collaborators of from_dataclass                  *)
(***************************************************************************)
is_dataclass(cls) == cls.k = "dataclass"

\* strips a generic alias to its origin; maps each declared parameter to the
\* argument of the use site
resolve_generic_dataclasses(cls) ==
    LET params == Class(cls.n).params
    IN [cls |-> cls.n,
        type_from_typevar |->
            IF cls.args = <<>>
            THEN EmptyMap
            ELSE [tv \in { params[i] : i \in DOMAIN params } |->
                    cls.args[CHOOSE i \in DOMAIN params : params[i] = tv]]]

resolved_fields(cls) == Class(cls).fields

SubstTypeVar(typ, type_from_typevar) ==
    IF typ.k = "typevar" /\ typ.n \in DOMAIN type_from_typevar
    THEN type_from_typevar[typ.n]
    ELSE typ

\* the leaf's type with the bound type variables replaced
ResolveType(typ, type_from_typevar) ==
    IF typ.k \in {"union", "dataclass"}
    THEN [typ EXCEPT !.args =
            [i \in DOMAIN typ.args |-> SubstTypeVar(typ.args[i], type_from_typevar)]]
    ELSE SubstTypeVar(typ, type_from_typevar)

\* ArgumentDefinition.make_from_field: the leaf and its role
make_from_field(cls, field, type_from_typevar) ==
    [arg |-> [name |-> <<field.name>>,
              typ |-> ResolveType(field.type, type_from_typevar),
              required |-> ~field.has_default],
     role |-> "VANILLA_FIELD"]

(***************************************************************************)
(* ParserDefinition.from_dataclass                                         *)
(***************************************************************************)
NewCall(cls, parent_dataclasses, parent_type_from_typevar) ==
    [phase |-> "call", typ |-> cls, cls |-> "",
     parent_dataclasses |-> parent_dataclasses,
     parent_type_from_typevar |-> parent_type_from_typevar,
     type_from_typevar |-> EmptyMap,
     idx |-> 0, args |-> <<>>, subparsers |-> None,
     opt |-> 0, parsers |-> <<>>]

\* the child's bindings left as the use site wrote them
ComposeTypevarsSkipped(type_from_typevar, parent_type_from_typevar) ==
    type_from_typevar

\* lines 71-74: a binding to one of the parent's type variables is replaced
\* by the parent's binding of it
ComposeTypevars(type_from_typevar, parent_type_from_typevar) ==
    IF parent_type_from_typevar = None
    THEN type_from_typevar
    ELSE [tv \in DOMAIN type_from_typevar |->
            IF /\ type_from_typevar[tv].k = "typevar"
               /\ type_from_typevar[tv].n \in DOMAIN parent_type_from_typevar[1]
            THEN parent_type_from_typevar[1][type_from_typevar[tv].n]
            ELSE type_from_typevar[tv]]

\* line 117
Options(typ) == PyTuple(typ.args)
\* line 118
OptionsNoNone(typ) == PyList(SelectSeq(typ.args, LAMBDA o : o # NoneType))
\* lines 115-121
IsSubparserUnion(typ) ==
    /\ typ.k = "union"
    /\ Len(OptionsNoNone(typ).items) >= 2
    /\ \A i \in DOMAIN OptionsNoNone(typ).items :
          is_dataclass(OptionsNoNone(typ).items[i])
\* lines 138-140
SubparsersRequired(typ) == Options(typ) = OptionsNoNone(typ)

\* line 130: option.__name__
OptionName(option) == Class(option.n).name

\* the child's name put before the parent's
PrefixNameSwapped(field, arg) ==
    [arg EXCEPT !.name = arg.name \o <<NESTED_DATACLASS_DELIMETER, field.name>>]

\* lines 99-104
PrefixName(field, arg) ==
    [arg EXCEPT !.name = <<field.name, NESTED_DATACLASS_DELIMETER>> \o arg.name]

Top == stack[Len(stack)]
Caller == stack[Len(stack) - 1]
CurrentField(frame) == resolved_fields(frame.cls)[frame.idx]
InLoop(frame) ==
    frame.phase = "fields" /\ frame.idx <= Len(resolved_fields(frame.cls))
LoopDone(frame) ==
    frame.phase = "fields" /\ frame.idx > Len(resolved_fields(frame.cls))
\* lines 153-158
ParserDefinition(frame) ==
    [description |-> frame.cls, args |-> frame.args,
     subparsers |-> frame.subparsers]

SetTop(frame) == [stack EXCEPT ![Len(stack)] = frame]
Pop(frame) == Append(SubSeq(stack, 1, Len(stack) - 2), frame)

Raise(what) ==
    /\ error' = what
    /\ pc' = "raised"
    /\ stack' = <<>>
    /\ UNCHANGED <<fieldVars, top, rootFields, role_from_field, result, parser>>

\* the assertion of lines 76-78 left out
IsCyclicUnchecked(cls, parent_dataclasses) == FALSE

\* the assertion of lines 76-78 over every record type visited so far
IsCyclicAmongVisited(cls, parent_dataclasses) ==
    \/ cls \in parent_dataclasses
    \/ \E i \in DOMAIN role_from_field : role_from_field[i].key[1] = cls

\* lines 76-78: the assertion fails
IsCyclic(cls, parent_dataclasses) == cls \in parent_dataclasses

\* lines 62-78
Enter ==
    /\ pc = "running" /\ stack # <<>> /\ Top.phase = "call"
    /\ LET r == resolve_generic_dataclasses(Top.typ)
           tfv == ComposeTypevars(r.type_from_typevar,
                                  Top.parent_type_from_typevar)
       IN IF IsCyclic(r.cls, Top.parent_dataclasses)
          THEN Raise("Found a cyclic dataclass dependency")
          ELSE /\ stack' = SetTop([Top EXCEPT !.phase = "fields",
                                              !.cls = r.cls,
                                              !.type_from_typevar = tfv,
                                              !.idx = 1])
               /\ UNCHANGED <<fieldVars, top, rootFields, role_from_field, result,
                              error, parser, pc>>

\* lines 83-84
FieldSkip ==
    /\ pc = "running" /\ stack # <<>> /\ InLoop(Top)
    /\ ~CurrentField(Top).init
    /\ stack' = SetTop([Top EXCEPT !.idx = @ + 1])
    /\ UNCHANGED <<fieldVars, top, rootFields, role_from_field, result, error, parser, pc>>

\* lines 90-96: the recursive call for a nested dataclass field
FieldNestedCall ==
    /\ pc = "running" /\ stack # <<>> /\ InLoop(Top)
    /\ CurrentField(Top).init
    /\ is_dataclass(CurrentField(Top).type)
    /\ stack' = Append(SetTop([Top EXCEPT !.phase = "nested"]),
                       NewCall(CurrentField(Top).type,
                               Top.parent_dataclasses \cup {Top.cls},
                               Some(Top.type_from_typevar)))
    /\ UNCHANGED <<fieldVars, top, rootFields, role_from_field, result, error, parser, pc>>

\* the assertions of lines 108 and 122-124 left out
SubparsersNotAsserted(subparsers) == TRUE

\* lines 108 and 122-124: assert subparsers is None
SubparsersStillNone(subparsers) == subparsers = None

\* lines 97-112: the nested call returned
FieldNestedReturn ==
    /\ pc = "running" /\ Len(stack) >= 2 /\ LoopDone(Top)
    /\ Caller.phase = "nested"
    /\ LET child_definition == ParserDefinition(Top)
           field == CurrentField(Caller)
           child_args == [i \in DOMAIN child_definition.args |->
                            PrefixName(field, child_definition.args[i])]
       IN IF /\ child_definition.subparsers # None
             /\ ~SubparsersStillNone(Caller.subparsers)
          THEN Raise("assert subparsers is None")
          ELSE /\ stack' = Pop([Caller EXCEPT
                    !.phase = "fields",
                    !.args = @ \o child_args,
                    !.subparsers = IF child_definition.subparsers # None
                                   THEN child_definition.subparsers ELSE @,
                    !.idx = @ + 1])
               /\ role_from_field' =
                    DictSet(role_from_field, <<Caller.cls, field.name>>,
                            "NESTED_DATACLASS")
               /\ UNCHANGED <<fieldVars, top, rootFields, result, error, parser, pc>>

\* lines 115-124 and the first call of the comprehension of lines 129-137
FieldUnionBegin ==
    /\ pc = "running" /\ stack # <<>> /\ InLoop(Top)
    /\ CurrentField(Top).init
    /\ IsSubparserUnion(CurrentField(Top).type)
    /\ IF ~SubparsersStillNone(Top.subparsers)
       THEN Raise("Only one subparser group is supported per dataclass")
       ELSE /\ stack' = Append(
                    SetTop([Top EXCEPT !.phase = "union", !.opt = 1,
                                       !.parsers = <<>>]),
                    NewCall(OptionsNoNone(CurrentField(Top).type).items[1],
                            Top.parent_dataclasses \cup {Top.cls},
                            Some(Top.type_from_typevar)))
            /\ UNCHANGED <<fieldVars, top, rootFields, role_from_field, result, error,
                           parser, pc>>

\* lines 126-143: an option's call returned; the next option is resolved, or
\* the SubparsersDefinition is built
FieldUnionOptionReturn ==
    /\ pc = "running" /\ Len(stack) >= 2 /\ LoopDone(Top)
    /\ Caller.phase = "union"
    /\ LET field == CurrentField(Caller)
           options_no_none == OptionsNoNone(field.type).items
           option == options_no_none[Caller.opt]
           parsers == DictSet(Caller.parsers, OptionName(option),
                              ParserDefinition(Top))
       IN IF Caller.opt < Len(options_no_none)
          THEN /\ stack' = Append(
                    Pop([Caller EXCEPT !.opt = @ + 1, !.parsers = parsers]),
                    NewCall(options_no_none[Caller.opt + 1],
                            Caller.parent_dataclasses \cup {Caller.cls},
                            Some(Caller.type_from_typevar)))
               /\ UNCHANGED role_from_field
          ELSE /\ stack' = Pop([Caller EXCEPT
                    !.phase = "fields", !.opt = 0, !.parsers = <<>>,
                    !.subparsers =
                        Some([name |-> field.name,
                              parsers |-> parsers,
                              required |-> SubparsersRequired(field.type)]),
                    !.idx = @ + 1])
               /\ role_from_field' =
                    DictSet(role_from_field, <<Caller.cls, field.name>>,
                            "SUBPARSERS")
    /\ UNCHANGED <<fieldVars, top, rootFields, result, error, parser, pc>>

\* lines 145-151
FieldMakeArgument ==
    /\ pc = "running" /\ stack # <<>> /\ InLoop(Top)
    /\ CurrentField(Top).init
    /\ ~is_dataclass(CurrentField(Top).type)
    /\ ~IsSubparserUnion(CurrentField(Top).type)
    /\ LET made == make_from_field(Top.cls, CurrentField(Top),
                                   Top.type_from_typevar)
       IN /\ stack' = SetTop([Top EXCEPT !.args = Append(@, made.arg),
                                         !.idx = @ + 1])
          /\ role_from_field' =
                DictSet(role_from_field, <<Top.cls, CurrentField(Top).name>>,
                        made.role)
    /\ UNCHANGED <<fieldVars, top, rootFields, result, error, parser, pc>>

\* lines 153-158: the top-level call returns
Return ==
    /\ pc = "running" /\ Len(stack) = 1 /\ LoopDone(Top)
    /\ result' = Some(ParserDefinition(Top))
    /\ stack' = <<>>
    /\ pc' = "done"
    /\ UNCHANGED <<fieldVars, top, rootFields, role_from_field, error, parser>>

(***************************************************************************)
(* ParserDefinition.apply on a fresh argparse.ArgumentParser               *)
(***************************************************************************)
ArgumentParser ==
    [action_groups |-> <<[title |-> "positional arguments", actions |-> <<>>],
                         [title |-> "optional arguments", actions |-> <<>>]>>,
     subparsers |-> None]

\* the group list left in the order of creation
NotReversed(s) == s

\* line 28: [::-1]
Reverse(s) == [i \in DOMAIN s |-> s[Len(s) + 1 - i]]
ArgNames(args) == [i \in DOMAIN args |-> args[i].name]
AddActions(groups, title, names) ==
    [i \in DOMAIN groups |->
        IF groups[i].title = title
        THEN [groups[i] EXCEPT !.actions = @ \o names]
        ELSE groups[i]]

RECURSIVE apply(_, _)
apply(self, p) ==
    LET \* lines 27-28
        grouped == Reverse(Append(p.action_groups,
                      [title |-> "required arguments", actions |-> <<>>]))
        \* lines 31-35
        required == ArgNames(SelectSeq(self.args, LAMBDA arg : arg.required))
        optional == ArgNames(SelectSeq(self.args, LAMBDA arg : ~arg.required))
        added == AddActions(
                    AddActions(grouped, "required arguments", required),
                    "optional arguments", optional)
    IN  IF self.subparsers = None
        THEN [action_groups |-> added, subparsers |-> None]
        ELSE \* lines 38-49
             LET sp == self.subparsers[1]
             IN [action_groups |->
                    Append(added, [title |-> "subcommands", actions |-> <<>>]),
                 subparsers |->
                    Some([dest |-> sp.name,
                          required |-> sp.required,
                          parsers |->
                            [i \in DOMAIN sp.parsers |->
                                [name |-> sp.parsers[i].key,
                                 parser |-> apply(sp.parsers[i].value,
                                                  ArgumentParser)]]])]

Apply ==
    /\ pc = "done"
    /\ parser' = Some(apply(result[1], ArgumentParser))
    /\ pc' = "applied"
    /\ UNCHANGED <<fieldVars, top, rootFields, stack, role_from_field, result, error>>

(***************************************************************************)
(* Specification of Part I                                                 *)
(***************************************************************************)
vars == <<parserVars, fieldVars>>

Init ==
    /\ \/ /\ top = RootTop
          /\ \E choice \in [1..NumRootFields -> RootFieldChoices("")] :
                rootFields = [i \in 1..NumRootFields |->
                                [choice[i] EXCEPT !.name = RootFieldNames[i]]]
       \/ /\ top \in FixedTops
          /\ rootFields = <<>>
    /\ stack = <<NewCall(top, {}, None)>>
    /\ role_from_field = <<>>
    /\ result = None
    /\ error = ""
    /\ parser = None
    /\ pc = "running"
    /\ op = "" /\ call = <<>> /\ ret = <<>>

Next ==
    \/ Enter
    \/ FieldSkip
    \/ FieldNestedCall
    \/ FieldNestedReturn
    \/ FieldUnionBegin
    \/ FieldUnionOptionReturn
    \/ FieldMakeArgument
    \/ Return
    \/ Apply

Spec == Init /\ [][Next]_vars

(***************************************************************************)
(*                               Part II                                   *)
(* tyro/_fields.py.  Python values are [vk, s, items]; types are           *)
(* [k, n, args, markers, conf, subconf, val], where markers, conf and      *)
(* subconf are what an Annotated[...] wrapper carries.                     *)
(***************************************************************************)
Val(vk, s, items) == [vk |-> vk, s |-> s, items |-> items]
Sentinel(s) == Val("sentinel", s, <<>>)
DATACLASSES_MISSING == Sentinel("dataclasses.MISSING")
MISSING_PROP == Sentinel("MISSING_PROP")
MISSING_NONPROP == Sentinel("MISSING_NONPROP")
PARAMETER_EMPTY == Sentinel("inspect.Parameter.empty")
EXCLUDE_FROM_CALL == Sentinel("EXCLUDE_FROM_CALL")
MISSING_SINGLETONS ==
    {DATACLASSES_MISSING, MISSING_PROP, MISSING_NONPROP, PARAMETER_EMPTY}

PyNone == Val("none", "None", <<>>)
IntV(s) == Val("int", s, <<>>)
StrV(s) == Val("str", s, <<>>)
ListV(items) == Val("list", "", items)
TupleV(items) == Val("tuple", "", items)
\* a dict: items are [key, value] pairs in insertion order
DictV(pairs) == Val("dict", "", pairs)
\* an instance of a record class: items are its attributes
Instance(cid, attrs) == Val("instance", cid, attrs)
KV(key, value) == [key |-> key, value |-> value]

HasKey(pairs, key) == \E i \in DOMAIN pairs : pairs[i].key = key
GetKey(pairs, key) == pairs[CHOOSE i \in DOMAIN pairs : pairs[i].key = key].value
\* hasattr / getattr
hasattr(value, name) == value.vk = "instance" /\ HasKey(value.items, StrV(name))
getattr(value, name) == GetKey(value.items, StrV(name))

Fixed == "Fixed"
Suppress == "Suppress"
Positional == "Positional"
PositionalCall == "_PositionalCall"

FT(k, n, args) ==
    [k |-> k, n |-> n, args |-> args, markers |-> {}, conf |-> None,
     subconf |-> None, val |-> None]
Known(n) == FT("known", n, <<>>)
RecordType(kind, cid) == FT(kind, cid, <<>>)
Ellipsis == FT("ellipsis", "...", <<>>)
TupleOf(children) == FT("tuple", "tuple", children)
ListOf(contained) == FT("list", "list", <<contained>>)
BareList == FT("list", "list", <<>>)
DictType == FT("dict", "dict", <<>>)
Callable(n) == FT("callable", n, <<>>)
\* a value standing where a type is expected
ValueAsType(v) == [FT("value", "", <<>>) EXCEPT !.val = Some(v)]
\* Annotated[typ, *markers]
Annotated(typ, markers) == [typ EXCEPT !.markers = @ \cup markers]
\* _ArgConfiguration(name, metavar, help)
ArgConfiguration(name, metavar, help) ==
    [name |-> name, metavar |-> metavar, help |-> help]
\* Annotated[typ, tyro.conf.arg(name=...)]
AnnotatedArg(typ, name) ==
    [typ EXCEPT !.conf = Some(ArgConfiguration(Some(name), None, None))]
\* Annotated[typ, tyro.conf.subcommand(default=...)]
AnnotatedSubcommand(typ, default) == [typ EXCEPT !.subconf = Some(default)]

RecordKinds == {"typeddict", "namedtuple", "dataclass", "attrs", "pydantic"}

\* _resolver.unwrap_annotated: the type without its Annotated wrapper
StripAnnotated(typ) ==
    [typ EXCEPT !.markers = {}, !.conf = None, !.subconf = None]

\* a declared field of a record class: default is dataclasses.MISSING /
\* attr.NOTHING / absent from _field_defaults when none is declared; factory
\* is None or the value the default factory returns
Declared(name, typ, default, factory) ==
    [name |-> name, typ |-> typ, init |-> TRUE, default |-> default,
     factory |-> factory, factory_is_type |-> FALSE]

ConfigInstance(a, b) ==
    Instance("Config", <<KV(StrV("a"), a), KV(StrV("b"), b),
                         KV(StrV("c"), IntV("7"))>>)

RecordTable ==
    [Config |->
        [kind |-> "dataclass", total |-> TRUE,
         fields |-> <<Declared("a", Known("int"), DATACLASSES_MISSING, None),
                      Declared("b", Known("int"), IntV("5"), None),
                      Declared("c", Known("int"), DATACLASSES_MISSING,
                               Some(IntV("7")))>>],
     Nest |->
        [kind |-> "dataclass", total |-> TRUE,
         fields |-> <<Declared("inner", RecordType("dataclass", "Config"),
                               DATACLASSES_MISSING, None),
                      [Declared("own", RecordType("dataclass", "Config"),
                                DATACLASSES_MISSING,
                                Some(ConfigInstance(IntV("1"), IntV("5"))))
                         EXCEPT !.factory_is_type = TRUE],
                      [Declared("skipped", Known("int"), IntV("0"), None)
                         EXCEPT !.init = FALSE]>>],
     Marked |->
        [kind |-> "dataclass", total |-> TRUE,
         fields |-> <<Declared("f", Annotated(Known("int"), {Fixed}),
                               IntV("1"), None),
                      Declared("g", Annotated(Known("int"), {Suppress}),
                               DATACLASSES_MISSING, None)>>],
     Renamed |->
        [kind |-> "dataclass", total |-> TRUE,
         fields |-> <<Declared("h", AnnotatedArg(Known("int"), "x"),
                               DATACLASSES_MISSING, None),
                      Declared("i", AnnotatedArg(Known("int"), "x"),
                               IntV("2"), None)>>],
     PointNT |->
        [kind |-> "namedtuple", total |-> TRUE,
         fields |-> <<Declared("x", Known("int"), DATACLASSES_MISSING, None),
                      Declared("y", Known("int"), IntV("2"), None)>>],
     OptsTD |->
        [kind |-> "typeddict", total |-> TRUE,
         fields |-> <<Declared("p", Known("int"), DATACLASSES_MISSING, None),
                      Declared("q", Known("str"), DATACLASSES_MISSING, None)>>],
     PartialTD |->
        [kind |-> "typeddict", total |-> FALSE,
         fields |-> <<Declared("p", Known("int"), DATACLASSES_MISSING, None),
                      Declared("q", ListOf(Known("int")), DATACLASSES_MISSING,
                               None)>>],
     PartialNestTD |->
        [kind |-> "typeddict", total |-> FALSE,
         fields |-> <<Declared("p", Known("int"), DATACLASSES_MISSING, None),
                      Declared("r", RecordType("dataclass", "Config"),
                               DATACLASSES_MISSING, None)>>],
     AttrsCfg |->
        [kind |-> "attrs", total |-> TRUE,
         fields |-> <<Declared("u", Known("int"), DATACLASSES_MISSING, None),
                      Declared("v", Known("int"), IntV("3"), None),
                      Declared("w", Known("int"), DATACLASSES_MISSING,
                               Some(IntV("4")))>>],
     PydCfg |->
        [kind |-> "pydantic", total |-> TRUE,
         fields |-> <<Declared("m", Known("int"), DATACLASSES_MISSING, None),
                      Declared("n", Known("int"), IntV("9"), None)>>]]

RecordTypeOf(cid) == RecordType(RecordTable[cid].kind, cid)

\* type(x)
TypeOf(value) ==
    CASE value.vk = "int" -> Known("int")
      [] value.vk = "str" -> Known("str")
      [] value.vk = "instance" -> RecordTypeOf(value.s)
      [] value.vk = "list" -> BareList
      [] value.vk = "tuple" -> TupleOf(<<>>)
      [] value.vk = "dict" -> DictType
      [] OTHER -> Known("NoneType")

(***************************************************************************)
(* What a function of _fields.py gives back: a field list, the reason why  *)
(* the type is not a nested type, or an exception.                         *)
(***************************************************************************)
FieldList(fields) == [kind |-> "fields", fields |-> fields, message |-> ""]
UnsupportedNestedTypeMessage(message) ==
    [kind |-> "unsupported", fields |-> <<>>, message |-> message]
Raised(message) == [kind |-> "raise", fields |-> <<>>, message |-> message]
UnsupportedTypeAnnotationError == "UnsupportedTypeAnnotationError"

\* the field lists of results joined, or the first exception among them
RECURSIVE Collect(_)
Collect(results) ==
    IF results = <<>> THEN FieldList(<<>>)
    ELSE IF Head(results).kind = "raise" THEN Head(results)
    ELSE LET rest == Collect(Tail(results))
         IN IF rest.kind = "raise" THEN rest
            ELSE FieldList(Head(results).fields \o rest.fields)

\* __post_init__ left out
PostInitUnchecked(field) == TRUE

\* lines 51-57: __post_init__ lets the field be
PostInitAccepts(field) ==
    ~ /\ (Fixed \in field.markers \/ Suppress \in field.markers)
      /\ field.default \in MISSING_SINGLETONS

\* the dataclass constructor of FieldDefinition (lines 37-57)
FieldDefinition(name, typ, default, helptext, markers, argconf, call_argname) ==
    LET field == [name |-> name, typ |-> typ, default |-> default,
                  helptext |-> helptext, markers |-> markers,
                  argconf |-> argconf, call_argname |-> call_argname]
    IN IF PostInitAccepts(field)
       THEN FieldList(<<field>>)
       ELSE Raised(UnsupportedTypeAnnotationError)

\* lines 59-87
make(name, typ, default, helptext, call_argname_override, markers) ==
    LET argconf == IF typ.conf = None
                   THEN ArgConfiguration(None, None, None)
                   ELSE typ.conf[1]
    IN FieldDefinition(
          IF argconf.name = None THEN name ELSE argconf.name[1],
          StripAnnotated(typ),
          default,
          IF typ.conf = None THEN helptext ELSE argconf.help,
          typ.markers \cup markers,
          argconf,
          IF call_argname_override # None
          THEN call_argname_override[1] ELSE StrV(name))

\* lines 89-93: dataclasses.replace builds the field anew
add_markers(field, markers) ==
    FieldDefinition(field.name, field.typ, field.default, field.helptext,
                    field.markers \cup markers, field.argconf,
                    field.call_argname)

(***************************************************************************)
(* The structural classifier                                               *)
(***************************************************************************)
Parameter(name, kind, has_hint, typ, default) ==
    [name |-> name, kind |-> kind, has_hint |-> has_hint, typ |-> typ,
     default |-> default]

\* general callables: params are those of inspect.signature without self;
\* hints_fail: get_type_hints raises TypeError
CallableTable ==
    [train |->
        [hints_fail |-> FALSE,
         params |-> <<Parameter("lr", "POSITIONAL_OR_KEYWORD", TRUE,
                                Known("float"), PARAMETER_EMPTY),
                      Parameter("steps", "KEYWORD_ONLY", TRUE,
                                Known("int"), IntV("1"))>>],
     posonly |->
        [hints_fail |-> FALSE,
         params |-> <<Parameter("x", "POSITIONAL_ONLY", TRUE,
                                Known("int"), PARAMETER_EMPTY)>>],
     untyped_pos |->
        [hints_fail |-> FALSE,
         params |-> <<Parameter("x", "POSITIONAL_OR_KEYWORD", FALSE,
                                Known("int"), PARAMETER_EMPTY)>>],
     untyped_kw |->
        [hints_fail |-> FALSE,
         params |-> <<Parameter("x", "POSITIONAL_OR_KEYWORD", TRUE,
                                Known("int"), PARAMETER_EMPTY),
                      Parameter("k", "KEYWORD_ONLY", FALSE,
                                Known("int"), PARAMETER_EMPTY)>>],
     untyped_both |->
        [hints_fail |-> FALSE,
         params |-> <<Parameter("x", "POSITIONAL_OR_KEYWORD", FALSE,
                                Known("int"), PARAMETER_EMPTY),
                      Parameter("k", "KEYWORD_ONLY", FALSE,
                                Known("int"), PARAMETER_EMPTY)>>],
     device |-> [hints_fail |-> TRUE, params |-> <<>>]]

\* str(i) of the positions of a tuple or a sequence
IndexName(i) == <<"0", "1", "2", "3", "4", "5">>[i + 1]
\* line 570: str(k)
KeyName(key) == key.s

\* isinstance(default_instance, Iterable)
IsIterable(value) == value.vk \in {"list", "tuple", "dict", "str"}
\* what iterating the value yields
Elements(value) ==
    CASE value.vk \in {"list", "tuple"} -> value.items
      [] value.vk = "dict" -> [i \in DOMAIN value.items |-> value.items[i].key]
      [] OTHER -> <<>>

\* _resolver.narrow_type: no record type of the runs subclasses another, so
\* the annotated type is kept
narrow_type(typ, default_instance) == typ

\* the field's own default taken before the parent's attribute
get_dataclass_field_default_own_first(field, parent_default_instance) ==
    IF parent_default_instance = MISSING_PROP
    THEN MISSING_PROP
    ELSE IF field.default \notin MISSING_SINGLETONS
    THEN field.default
    ELSE IF /\ parent_default_instance \notin MISSING_SINGLETONS
            /\ parent_default_instance # PyNone
            /\ hasattr(parent_default_instance, field.name)
    THEN getattr(parent_default_instance, field.name)
    ELSE IF /\ field.factory # None
            /\ ~(field.typ.k = "dataclass" /\ field.factory_is_type)
    THEN field.factory[1]
    ELSE MISSING_NONPROP

\* lines 700-751
get_dataclass_field_default(field, parent_default_instance) ==
    IF parent_default_instance = MISSING_PROP
    THEN MISSING_PROP
    ELSE IF /\ parent_default_instance \notin MISSING_SINGLETONS
            /\ parent_default_instance # PyNone
            /\ hasattr(parent_default_instance, field.name)
    THEN getattr(parent_default_instance, field.name)
    ELSE IF field.default \notin MISSING_SINGLETONS
    THEN field.default
    ELSE IF /\ field.factory # None
            /\ ~(field.typ.k = "dataclass" /\ field.factory_is_type)
    THEN field.factory[1]
    ELSE MISSING_NONPROP

RECURSIVE try_field_list_from_callable(_, _)
RECURSIVE is_nested_type(_, _)

\* the result of is_nested_type: a truth value, or the exception of the
\* classifier
NestedAnswer(out) ==
    [raised |-> out.kind = "raise",
     nested |-> out.kind = "fields",
     message |-> out.message]

\* is_nested_type with the classifier's exception turned into False
is_nested_type_swallowing(typ, default_instance) ==
    LET out == try_field_list_from_callable(typ, default_instance)
    IN [raised |-> FALSE, nested |-> out.kind = "fields", message |-> ""]

\* lines 163-170
is_nested_type(typ, default_instance) ==
    NestedAnswer(try_field_list_from_callable(typ, default_instance))

\* the answers for a sequence of (type, default) pairs, evaluated in order
AnyRaised(answers) == \E i \in DOMAIN answers : answers[i].raised
FirstRaised(answers) ==
    Raised(answers[CHOOSE i \in DOMAIN answers :
                     /\ answers[i].raised
                     /\ \A j \in 1..(i - 1) : ~answers[j].raised].message)

\* lines 275-304
field_list_from_typeddict(cls, default_instance) ==
    LET valid_default_instance ==
            /\ default_instance \notin MISSING_SINGLETONS
            /\ default_instance # EXCLUDE_FROM_CALL
        decl == RecordTable[cls.n].fields
        total == RecordTable[cls.n].total
        one(f) ==
            IF valid_default_instance
            THEN make(f.name, f.typ,
                      IF HasKey(default_instance.items, StrV(f.name))
                      THEN GetKey(default_instance.items, StrV(f.name))
                      ELSE MISSING_PROP,
                      None, None, {})
            ELSE IF ~total
            THEN LET nested == is_nested_type(f.typ, MISSING_NONPROP)
                 IN IF nested.raised THEN Raised(nested.message)
                    ELSE IF nested.nested
                    THEN Raised(UnsupportedTypeAnnotationError)
                    ELSE make(f.name, f.typ, EXCLUDE_FROM_CALL, None, None, {})
            ELSE make(f.name, f.typ, MISSING_PROP, None, None, {})
    IN IF valid_default_instance /\ default_instance.vk # "dict"
       THEN Raised("AssertionError")
       ELSE Collect([i \in DOMAIN decl |-> one(decl[i])])

\* lines 307-335
field_list_from_namedtuple(cls, default_instance) ==
    LET decl == RecordTable[cls.n].fields
        one(f) ==
            make(f.name, f.typ,
                 IF default_instance = MISSING_PROP
                 THEN MISSING_PROP
                 ELSE IF hasattr(default_instance, f.name)
                 THEN getattr(default_instance, f.name)
                 ELSE IF f.default # DATACLASSES_MISSING
                 THEN f.default
                 ELSE MISSING_NONPROP,
                 None, None, {})
    IN Collect([i \in DOMAIN decl |-> one(decl[i])])

\* the filter on field.init left out
field_list_from_dataclass_unfiltered(cls, default_instance) ==
    LET decl == RecordTable[cls.n].fields
        one(f) ==
            make(f.name, f.typ,
                 get_dataclass_field_default(f, default_instance),
                 None, None, {})
    IN Collect([i \in DOMAIN decl |-> one(decl[i])])

\* lines 338-364
field_list_from_dataclass(cls, default_instance) ==
    LET decl == SelectSeq(RecordTable[cls.n].fields, LAMBDA f : f.init)
        one(f) ==
            make(f.name, f.typ,
                 get_dataclass_field_default(f, default_instance),
                 None, None, {})
    IN Collect([i \in DOMAIN decl |-> one(decl[i])])

\* lines 379-397
field_list_from_pydantic(cls, default_instance) ==
    LET decl == RecordTable[cls.n].fields
        one(f) ==
            make(f.name, f.typ,
                 IF f.default = DATACLASSES_MISSING /\ f.factory = None
                 THEN MISSING_NONPROP
                 ELSE IF f.default # DATACLASSES_MISSING THEN f.default
                 ELSE f.factory[1],
                 None, None, {})
    IN Collect([i \in DOMAIN decl |-> one(decl[i])])

\* lines 410-434
field_list_from_attrs(cls, default_instance) ==
    LET decl == RecordTable[cls.n].fields
        one(f) ==
            make(f.name, f.typ,
                 IF f.factory # None THEN f.factory[1]
                 ELSE IF f.default = DATACLASSES_MISSING THEN MISSING_NONPROP
                 ELSE f.default,
                 None, None, {})
    IN Collect([i \in DOMAIN decl |-> one(decl[i])])

\* lines 514-555
try_field_list_from_sequence_inner(contained_type, default_instance) ==
    LET missing == default_instance \in MISSING_SINGLETONS
        contained == is_nested_type(contained_type, MISSING_NONPROP)
        elements == Elements(default_instance)
        each == [i \in DOMAIN elements |->
                    is_nested_type(TypeOf(elements[i]), elements[i])]
    IN IF missing /\ contained.raised
       THEN Raised(contained.message)
       ELSE IF missing /\ ~contained.nested
       THEN UnsupportedNestedTypeMessage("should be parsed directly")
       ELSE IF IsIterable(default_instance) /\ AnyRaised(each)
       THEN FirstRaised(each)
       ELSE IF /\ IsIterable(default_instance)
               /\ \A i \in DOMAIN each : ~each[i].nested
       THEN UnsupportedNestedTypeMessage("should be parsed directly")
       ELSE IF missing
       THEN Raised(UnsupportedTypeAnnotationError)
       ELSE IF ~IsIterable(default_instance)
       THEN Raised("TypeError")
       ELSE Collect([i \in DOMAIN elements |->
                        make(IndexName(i - 1), contained_type, elements[i],
                             Some(""), None, {})])

\* lines 497-511
field_list_from_sequence_checked(f, default_instance) ==
    IF f.args = <<>>
    THEN IF default_instance \in MISSING_SINGLETONS
         THEN Raised(UnsupportedTypeAnnotationError)
         ELSE IF ~IsIterable(default_instance)
         THEN Raised("AssertionError")
         ELSE IF Elements(default_instance) = <<>>
         THEN Raised("StopIteration")
         ELSE try_field_list_from_sequence_inner(
                  ValueAsType(Elements(default_instance)[1]), default_instance)
    ELSE try_field_list_from_sequence_inner(f.args[1], default_instance)

\* the test of lines 485-492 for a nested position left out
field_list_from_tuple_unchecked(f, default_instance) ==
    IF \E i \in DOMAIN f.args : f.args[i] = Ellipsis
    THEN try_field_list_from_sequence_inner(
            f.args[CHOOSE i \in DOMAIN f.args : f.args[i] # Ellipsis],
            default_instance)
    ELSE IF f.args = <<>> /\ default_instance \in MISSING_SINGLETONS
    THEN Raised(UnsupportedTypeAnnotationError)
    ELSE IF f.args = <<>> /\ default_instance.vk # "tuple"
    THEN Raised("AssertionError")
    ELSE
    LET children == IF f.args = <<>>
                    THEN [i \in DOMAIN default_instance.items |->
                            TypeOf(default_instance.items[i])]
                    ELSE f.args
        spread == \/ default_instance \in MISSING_SINGLETONS
                  \/ default_instance = EXCLUDE_FROM_CALL
        indexable == default_instance.vk \in {"tuple", "list"}
        made == Collect([i \in DOMAIN children |->
                    make(IndexName(i - 1), children[i],
                         IF spread THEN default_instance
                         ELSE default_instance.items[i],
                         Some(""), None, {})])
        each == [i \in DOMAIN made.fields |->
                    is_nested_type(made.fields[i].typ, made.fields[i].default)]
    IN IF ~spread /\ ~indexable /\ children # <<>>
       THEN Raised("TypeError")
       ELSE IF ~spread /\ indexable
               /\ Len(default_instance.items) < Len(children)
       THEN Raised("IndexError")
       ELSE IF made.kind = "raise" THEN made
       ELSE IF AnyRaised(each) THEN FirstRaised(each)
       ELSE made

\* lines 437-494
field_list_from_tuple(f, default_instance) ==
    IF \E i \in DOMAIN f.args : f.args[i] = Ellipsis
    THEN try_field_list_from_sequence_inner(
            f.args[CHOOSE i \in DOMAIN f.args : f.args[i] # Ellipsis],
            default_instance)
    ELSE IF f.args = <<>> /\ default_instance \in MISSING_SINGLETONS
    THEN Raised(UnsupportedTypeAnnotationError)
    ELSE IF f.args = <<>> /\ default_instance.vk # "tuple"
    THEN Raised("AssertionError")
    ELSE
    LET children == IF f.args = <<>>
                    THEN [i \in DOMAIN default_instance.items |->
                            TypeOf(default_instance.items[i])]
                    ELSE f.args
        spread == \/ default_instance \in MISSING_SINGLETONS
                  \/ default_instance = EXCLUDE_FROM_CALL
        indexable == default_instance.vk \in {"tuple", "list"}
        made == Collect([i \in DOMAIN children |->
                    make(IndexName(i - 1), children[i],
                         IF spread THEN default_instance
                         ELSE default_instance.items[i],
                         Some(""), None, {})])
        each == [i \in DOMAIN made.fields |->
                    is_nested_type(made.fields[i].typ, made.fields[i].default)]
    IN IF ~spread /\ ~indexable /\ children # <<>>
       THEN Raised("TypeError")
       ELSE IF ~spread /\ indexable
               /\ Len(default_instance.items) < Len(children)
       THEN Raised("IndexError")
       ELSE IF made.kind = "raise" THEN made
       ELSE IF AnyRaised(each) THEN FirstRaised(each)
       ELSE IF \A i \in DOMAIN each : ~each[i].nested
       THEN UnsupportedNestedTypeMessage(
                "Tuple does not contain any nested structures.")
       ELSE made

\* lines 558-578
field_list_from_dict(f, default_instance) ==
    IF default_instance \in MISSING_SINGLETONS
    THEN UnsupportedNestedTypeMessage(
            "Nested dictionary structures must have a default instance specified.")
    ELSE IF default_instance.vk # "dict"
    THEN Raised("AttributeError")
    ELSE Collect([i \in DOMAIN default_instance.items |->
            make(KeyName(default_instance.items[i].key),
                 TypeOf(default_instance.items[i].value),
                 default_instance.items[i].value,
                 None,
                 Some(default_instance.items[i].key), {})])

\* lines 612-682: the parameters in order; the first one without a hint ends
\* the loop
RECURSIVE field_list_from_params(_, _)
field_list_from_params(f, params) ==
    IF CallableTable[f.n].hints_fail
    THEN UnsupportedNestedTypeMessage("Could not get hints")
    ELSE IF params = <<>> THEN FieldList(<<>>)
    ELSE LET param == Head(params)
         IN IF ~param.has_hint
            THEN IF param.kind = "KEYWORD_ONLY"
                 THEN Raised(UnsupportedTypeAnnotationError)
                 ELSE UnsupportedNestedTypeMessage(
                        "Expected fully type-annotated callable")
            ELSE LET made == make(param.name, param.typ, param.default, None,
                                  None,
                                  IF param.kind = "POSITIONAL_ONLY"
                                  THEN {Positional, PositionalCall} ELSE {})
                     rest == field_list_from_params(f, Tail(params))
                 IN IF made.kind = "raise" THEN made
                    ELSE IF rest.kind # "fields" THEN rest
                    ELSE FieldList(made.fields \o rest.fields)

\* lines 581-609
try_field_list_from_general_callable(f, default_instance) ==
    IF default_instance \notin MISSING_SINGLETONS
    THEN UnsupportedNestedTypeMessage(
            "default_instance is supported only for select types")
    ELSE IF f.k # "callable"
    THEN UnsupportedNestedTypeMessage("not a callable type")
    ELSE field_list_from_params(f, CallableTable[f.n].params)

\* lines 197-207: the hashable values of builtins, typing, typing_extensions
\* and collections.abc that the runs meet; the bare builtins list, dict and
\* tuple are among them
known_parsable_types ==
    {Known("int"), Known("str"), Known("float"), BareList, DictType,
     TupleOf(<<>>)}

\* lines 210-272
try_field_list_from_callable(f0, default_instance0) ==
    LET default_instance == IF f0.subconf # None
                            THEN f0.subconf[1] ELSE default_instance0
        f == narrow_type(StripAnnotated(f0), default_instance)
    IN IF f.k = "typeddict" THEN field_list_from_typeddict(f, default_instance)
       ELSE IF f.k = "namedtuple"
       THEN field_list_from_namedtuple(f, default_instance)
       ELSE IF f.k = "dataclass"
       THEN field_list_from_dataclass(f, default_instance)
       ELSE IF f.k = "attrs" THEN field_list_from_attrs(f, default_instance)
       ELSE IF f.k = "pydantic"
       THEN field_list_from_pydantic(f, default_instance)
       ELSE IF f.k = "tuple" THEN field_list_from_tuple(f, default_instance)
       ELSE IF f.k = "dict" THEN field_list_from_dict(f, default_instance)
       ELSE IF f.k = "list"
       THEN field_list_from_sequence_checked(f, default_instance)
       ELSE IF f \in known_parsable_types
       THEN UnsupportedNestedTypeMessage("should be parsed directly!")
       ELSE try_field_list_from_general_callable(f, default_instance)

\* lines 173-187
field_list_from_callable(f, default_instance) ==
    LET out == try_field_list_from_callable(f, default_instance)
    IN IF out.kind = "unsupported"
       THEN Raised(UnsupportedTypeAnnotationError)
       ELSE IF out.kind = "raise" THEN out
       ELSE Collect([i \in DOMAIN out.fields |->
                        add_markers(out.fields[i], f.markers)])

(***************************************************************************)
(* Specification of Part II: one call of a function of _fields.py on       *)
(* arguments drawn from the types and default instances below, and         *)
(* add_markers on a field of a returned list.                              *)
(***************************************************************************)
SeqsUpTo(S, n) == UNION { [1..m -> S] : m \in 0..n }

Config == RecordTypeOf("Config")
AConfig == ConfigInstance(IntV("1"), IntV("5"))

FieldTypes ==
    { RecordTypeOf(cid) : cid \in DOMAIN RecordTable }
    \cup { Callable(n) : n \in DOMAIN CallableTable }
    \cup { Known("int"), Known("str"),
           ListOf(Known("int")), ListOf(Config), ListOf(RecordTypeOf("PointNT")),
           ListOf(RecordTypeOf("PartialTD")),
           ListOf(ListOf(Config)), ListOf(TupleOf(<<Known("int"), Known("int")>>)),
           ListOf(DictType), ListOf(Callable("train")),
           ListOf(Callable("untyped_pos")), BareList,
           TupleOf(<<Known("int"), Ellipsis>>), TupleOf(<<Config, Ellipsis>>),
           TupleOf(<<Known("int"), Known("int")>>),
           TupleOf(<<Config, Known("int")>>), TupleOf(<<>>),
           TupleOf(<<Config, ListOf(Config)>>),
           DictType,
           Annotated(Config, {Fixed}), Annotated(Config, {Positional}),
           AnnotatedSubcommand(Config, AConfig),
           AnnotatedSubcommand(RecordTypeOf("AttrsCfg"), MISSING_PROP) }

Sentinels == MISSING_SINGLETONS \cup {EXCLUDE_FROM_CALL}

ElementValues == {IntV("1"), AConfig}
DictKeyValues == {IntV("1"), StrV("1"), StrV("k")}
DictDefaults ==
    { DictV(pairs) :
        pairs \in { ps \in SeqsUpTo({ KV(k, v) : k \in DictKeyValues,
                                                 v \in ElementValues },
                                    MaxDefaultLen) :
                      \A i, j \in DOMAIN ps : i # j => ps[i].key # ps[j].key } }

\* the default instances a type is resolved with
DefaultsFor(f) ==
    Sentinels \cup {PyNone} \cup
    CASE f.k = "dataclass" /\ f.n = "Config" ->
            {AConfig, ConfigInstance(IntV("1"), IntV("2")),
             Instance("Config", <<KV(StrV("a"), IntV("1"))>>)}
      [] f.k = "dataclass" /\ f.n = "Nest" ->
            {Instance("Nest", <<KV(StrV("inner"), AConfig),
                                KV(StrV("own"), AConfig)>>)}
      [] f.k = "dataclass" /\ f.n = "Marked" ->
            {Instance("Marked", <<KV(StrV("f"), IntV("1")),
                                  KV(StrV("g"), IntV("2"))>>)}
      [] f.k = "namedtuple" ->
            {Instance("PointNT", <<KV(StrV("x"), IntV("1")),
                                   KV(StrV("y"), IntV("2"))>>)}
      [] f.k = "typeddict" ->
            {DictV(<<KV(StrV("p"), IntV("1"))>>),
             DictV(<<KV(StrV("p"), IntV("1")), KV(StrV("q"), StrV("k"))>>)}
      [] f.k = "list" ->
            { ListV(items) : items \in SeqsUpTo(ElementValues, MaxDefaultLen) }
      [] f.k = "tuple" ->
            { TupleV(items) : items \in SeqsUpTo(ElementValues, MaxDefaultLen) }
      [] f.k = "dict" -> DictDefaults
      [] f.k = "known" -> {IntV("1"), StrV("k")}
      [] OTHER -> {}

CallOf(f, default, field, markers) ==
    [f |-> f, default |-> default, field |-> field, markers |-> markers]

InitFields ==
    /\ op = ""
    /\ call = CallOf(Known("int"), MISSING_NONPROP, None, {})
    /\ ret = FieldList(<<>>)
    /\ top = RootTop /\ rootFields = <<>> /\ stack = <<>>
    /\ role_from_field = <<>> /\ result = None /\ error = ""
    /\ parser = None /\ pc = "idle"

TryFieldListFromCallable ==
    /\ op = ""
    /\ \E f \in FieldTypes : \E default_instance \in DefaultsFor(f) :
          /\ call' = CallOf(f, default_instance, None, {})
          /\ ret' = try_field_list_from_callable(f, default_instance)
    /\ op' = "_try_field_list_from_callable"
    /\ UNCHANGED parserVars

IsNestedType ==
    /\ op = ""
    /\ \E f \in FieldTypes : \E default_instance \in DefaultsFor(f) :
          /\ call' = CallOf(f, default_instance, None, {})
          /\ ret' = LET answer == is_nested_type(f, default_instance)
                    IN IF answer.raised THEN Raised(answer.message)
                       ELSE [kind |-> IF answer.nested THEN "True" ELSE "False",
                             fields |-> <<>>, message |-> ""]
    /\ op' = "is_nested_type"
    /\ UNCHANGED parserVars

FieldListFromCallable ==
    /\ op = ""
    /\ \E f \in FieldTypes : \E default_instance \in DefaultsFor(f) :
          /\ call' = CallOf(f, default_instance, None, {})
          /\ ret' = field_list_from_callable(f, default_instance)
    /\ op' = "field_list_from_callable"
    /\ UNCHANGED parserVars

MakeTypes ==
    { Known("int"), Annotated(Known("int"), {Fixed}),
      Annotated(Known("int"), {Suppress}), Annotated(Known("int"), {Positional}),
      AnnotatedArg(Known("int"), "y"), Config }

Make ==
    /\ op = ""
    /\ \E typ \in MakeTypes : \E default \in Sentinels \cup {IntV("1"), PyNone} :
       \E markers \in SUBSET {Fixed, Suppress, Positional} :
          /\ call' = CallOf(typ, default, None, markers)
          /\ ret' = make("x", typ, default, None, None, markers)
    /\ op' = "FieldDefinition.make"
    /\ UNCHANGED parserVars

AddMarkers ==
    /\ op # "" /\ ret.kind = "fields"
    /\ \E i \in DOMAIN ret.fields :
       \E markers \in SUBSET {Fixed, Suppress, Positional} :
          /\ call' = CallOf(call.f, call.default, Some(ret.fields[i]), markers)
          /\ ret' = add_markers(ret.fields[i], markers)
    /\ op' = "FieldDefinition.add_markers"
    /\ UNCHANGED parserVars

NextFields ==
    \/ TryFieldListFromCallable
    \/ IsNestedType
    \/ FieldListFromCallable
    \/ Make
    \/ AddMarkers

SpecFields == InitFields /\ [][NextFields]_vars

(***************************************************************************)
(* Definitions used to state the properties of Part I                      *)
(***************************************************************************)
ClassIds == DOMAIN ClassTable \cup {"Root"}
Finished == pc \in {"done", "applied"}
CyclicError == "Found a cyclic dataclass dependency"

HasNullArm(typ) == \E i \in DOMAIN typ.args : typ.args[i] = NoneType

\* the fields of Root that from_dataclass turns into a Subcommand Group
RootUnionFields ==
    { i \in DOMAIN rootFields :
        top = RootTop /\ rootFields[i].init
        /\ IsSubparserUnion(rootFields[i].type) }

\* the record types a record type refers to: nested record fields and the
\* arms of tagged unions; initOnly leaves out the fields with init = False
Refers(cid, initOnly) ==
    UNION { IF is_dataclass(f.type) THEN {f.type.n}
            ELSE IF IsSubparserUnion(f.type)
            THEN { OptionsNoNone(f.type).items[i].n :
                     i \in DOMAIN OptionsNoNone(f.type).items }
            ELSE {} :
            f \in { Class(cid).fields[i] :
                      i \in { j \in DOMAIN Class(cid).fields :
                                ~initOnly \/ Class(cid).fields[j].init } } }

RECURSIVE Closure(_, _)
Closure(S, initOnly) ==
    LET more == S \cup UNION { Refers(c, initOnly) : c \in S }
    IN IF more = S THEN S ELSE Closure(more, initOnly)

ContainsItself(cid, initOnly) ==
    cid \in Closure(Refers(cid, initOnly), initOnly)
ReachesCycle(cid, initOnly) ==
    \E c \in Closure({cid}, initOnly) : ContainsItself(c, initOnly)

(***************************************************************************)
(* C1  The Subcommand Group of a union field is required exactly when the  *)
(* union has no null arm, and apply hands that flag to add_subparsers.     *)
(***************************************************************************)
C1_RequiredUnlessNullArm ==
    pc = "applied" =>
        \A i \in RootUnionFields :
            /\ result[1].subparsers # None
            /\ result[1].subparsers[1].required = ~HasNullArm(rootFields[i].type)
            /\ parser[1].subparsers[1].required = ~HasNullArm(rootFields[i].type)

(***************************************************************************)
(* C2  The variant mapping has one entry per non-null arm, keyed by the    *)
(* arm's declared name, in declaration order, and apply registers one      *)
(* sub-parser per entry: n arms give n distinct subcommand tokens.         *)
(***************************************************************************)
C2_OneTokenPerArm ==
    pc = "applied" =>
        \A i \in RootUnionFields :
            LET arms == OptionsNoNone(rootFields[i].type).items
                parsers == result[1].subparsers[1].parsers
                registered == parser[1].subparsers[1].parsers
            IN /\ [j \in DOMAIN parsers |-> parsers[j].key]
                    = [j \in DOMAIN arms |-> OptionName(arms[j])]
               /\ [j \in DOMAIN registered |-> registered[j].name]
                    = [j \in DOMAIN parsers |-> parsers[j].key]
               /\ Cardinality({ registered[j].name : j \in DOMAIN registered })
                    = Len(arms)

(***************************************************************************)
(* C3  A record type that contains itself raises the cyclic-dependency     *)
(* error.                                                                  *)
(***************************************************************************)
\* as claimed: whenever the top-level record contains itself through its
\* declared fields or tagged-union arms, the call ends in the cyclic error
C3_SelfContainingRaisesCyclic ==
    (pc # "running" /\ ContainsItself(top.n, FALSE)) => error = CyclicError

\* as amended: a call entered for a type on the active path raises, so the
\* path never repeats a type and its depth is bounded by the number of record
\* types; a record that contains itself through fields taking part in
\* construction never yields a definition, and the cyclic error is raised
\* only for such a record
C3_ReentryRaises ==
    /\ \A i \in DOMAIN stack :
          /\ stack[i].phase # "call" => stack[i].cls \notin stack[i].parent_dataclasses
          /\ \A j \in DOMAIN stack :
                (i < j /\ stack[j].phase # "call") => stack[i].cls # stack[j].cls
    /\ Len(stack) <= Cardinality(ClassIds)
    /\ Finished => ~ReachesCycle(top.n, TRUE)
    /\ error = CyclicError => ReachesCycle(top.n, TRUE)

\* the cycle Root -> Holder -> Root was entered and raised
C3_Witness ==
    /\ pc = "raised" /\ error = CyclicError
    /\ top = RootTop
    /\ rootFields[1].type = Dataclass("Holder", <<>>)

(***************************************************************************)
(* The flattening stated directly on the declarations: the leaves of a use *)
(* of a record type, depth first in declared field order, each with its    *)
(* path name and its type under the bindings in force at the use site.     *)
(***************************************************************************)
BindingAt(cls, env) ==
    LET params == Class(cls.n).params
    IN IF cls.args = <<>>
       THEN EmptyMap
       ELSE [tv \in { params[i] : i \in DOMAIN params } |->
               SubstTypeVar(cls.args[CHOOSE i \in DOMAIN params : params[i] = tv],
                            env)]

RECURSIVE ExpectedLeaves(_, _)
RECURSIVE ExpectedLeavesFrom(_, _, _)
ExpectedLeavesFrom(cid, bound, i) ==
    IF i > Len(Class(cid).fields)
    THEN <<>>
    ELSE LET f == Class(cid).fields[i]
             here ==
                IF ~f.init \/ IsSubparserUnion(f.type)
                THEN <<>>
                ELSE IF is_dataclass(f.type)
                THEN LET below == ExpectedLeaves(f.type, bound)
                     IN [j \in DOMAIN below |->
                            [name |-> <<f.name>> \o <<".">> \o below[j].name,
                             typ |-> below[j].typ]]
                ELSE << [name |-> <<f.name>>, typ |-> ResolveType(f.type, bound)] >>
         IN here \o ExpectedLeavesFrom(cid, bound, i + 1)
ExpectedLeaves(cls, env) == ExpectedLeavesFrom(cls.n, BindingAt(cls, env), 1)

NoTypeVar(typ) ==
    /\ typ.k # "typevar"
    /\ \A i \in DOMAIN typ.args : typ.args[i].k # "typevar"

\* the bindings the i-th active call must hold, from the use sites on the path
RECURSIVE PathBinding(_)
PathBinding(i) ==
    IF i = 1 THEN BindingAt(stack[1].typ, EmptyMap)
    ELSE BindingAt(stack[i].typ, PathBinding(i - 1))

\* a definition and the definitions of its variants, at any depth
RECURSIVE AllDefinitions(_)
AllDefinitions(def) ==
    {def} \cup
    (IF def.subparsers = None THEN {}
     ELSE UNION { AllDefinitions(def.subparsers[1].parsers[i].value) :
                    i \in DOMAIN def.subparsers[1].parsers })

\* the number of fields of a record type that bring a Subcommand Group to
\* its level: tagged-union fields and nested fields with a group of their own
RECURSIVE GroupSources(_)
GroupSources(cid) ==
    Cardinality({ i \in DOMAIN Class(cid).fields :
        /\ Class(cid).fields[i].init
        /\ \/ IsSubparserUnion(Class(cid).fields[i].type)
           \/ /\ is_dataclass(Class(cid).fields[i].type)
              /\ GroupSources(Class(cid).fields[i].type.n) >= 1 })

(***************************************************************************)
(* C5  Substitution maps compose across nesting: every leaf of a concrete  *)
(* instantiation has the concrete type of its own use site, at every       *)
(* depth, siblings keep their own bindings, and the map of an active call  *)
(* stays what its use site made it while its fields are processed.         *)
(***************************************************************************)
C5_BindingsCompose ==
    /\ \A i \in DOMAIN stack :
          stack[i].phase # "call" => stack[i].type_from_typevar = PathBinding(i)
    /\ Finished =>
          /\ [i \in DOMAIN result[1].args |-> result[1].args[i].typ]
                = [i \in DOMAIN ExpectedLeaves(top, EmptyMap) |->
                     ExpectedLeaves(top, EmptyMap)[i].typ]
          /\ \A i \in DOMAIN result[1].args : NoTypeVar(result[1].args[i].typ)

\* Root[float] with f1: Triangle[T] and f2: Point3[int]
C5_Witness ==
    /\ Finished /\ top = RootTop
    /\ rootFields[1].type = Dataclass("Triangle", <<T>>)
    /\ rootFields[2].type = Dataclass("Point3", <<Prim("int")>>)
    /\ Len(result[1].args) = 16
    /\ result[1].args[1].typ = Prim("float")
    /\ result[1].args[13].typ = Prim("int")

(***************************************************************************)
(* C6  The argument list holds the leaves depth first in declared field    *)
(* order, each named by the field names on its path joined by the          *)
(* delimiter; Line{point: Pair{a, b}, label} gives point.a, point.b, label.*)
(***************************************************************************)
C6_FlattenedNames ==
    Finished =>
        /\ \A def \in AllDefinitions(result[1]) :
              ArgNames(def.args)
                = [i \in DOMAIN ExpectedLeaves(Dataclass(def.description, <<>>),
                                               EmptyMap) |->
                     ExpectedLeaves(Dataclass(def.description, <<>>),
                                    EmptyMap)[i].name]
        /\ top = Dataclass("Line", <<>>) =>
              ArgNames(result[1].args)
                = << <<"point", ".", "a">>, <<"point", ".", "b">>, <<"label">> >>

\* three levels: Mesh.face -> Triangle.a -> Point3.x
C6_Witness ==
    /\ Finished /\ top = Dataclass("Mesh", <<Prim("float")>>)
    /\ result[1].args[1].name = <<"face", ".", "a", ".", "x">>
    /\ result[1].args[13].name = <<"scale">>

(***************************************************************************)
(* C7  A call that returns has had at most one source of a Subcommand      *)
(* Group at its level, and carries a group exactly when it had one; a      *)
(* level with two sources never returns.                                   *)
(***************************************************************************)
C7_AtMostOneGroup ==
    /\ \A i \in DOMAIN stack :
          LoopDone(stack[i]) =>
             /\ GroupSources(stack[i].cls) <= 1
             /\ (stack[i].subparsers # None) <=> (GroupSources(stack[i].cls) = 1)
    /\ Finished =>
          \A def \in AllDefinitions(result[1]) :
             /\ GroupSources(def.description) <= 1
             /\ (def.subparsers # None) <=> (GroupSources(def.description) = 1)

\* a tagged-union field followed by a nested field whose group bubbles up
C7_Witness ==
    /\ pc = "raised" /\ error = "assert subparsers is None"
    /\ top = RootTop
    /\ IsSubparserUnion(rootFields[1].type)
    /\ rootFields[2].type = Dataclass("Subparser", <<>>)

(***************************************************************************)
(* Definitions used to state the properties of Part II                     *)
(***************************************************************************)
TryOp == "_try_field_list_from_callable"
\* the default instance the decomposer of a record kind receives
EffectiveDefault == IF call.f.subconf # None THEN call.f.subconf[1] ELSE call.default
\* List[X], Sequence[X], Set[X] or Tuple[X, ...]
IsVariableLength(f) ==
    \/ f.k = "list" /\ Len(f.args) = 1
    \/ f.k = "tuple" /\ \E i \in DOMAIN f.args : f.args[i] = Ellipsis
ContainedType(f) == f.args[CHOOSE i \in DOMAIN f.args : f.args[i] # Ellipsis]
NeedsDefault(markers) == Fixed \in markers \/ Suppress \in markers

(***************************************************************************)
(* C4  With a Propagating-Missing parent default every child field of a    *)
(* record of any kind has default Propagating-Missing.                     *)
(***************************************************************************)
C4_PropagatingMissingForcesChildren ==
    ( /\ op = TryOp
      /\ call.f.k \in RecordKinds
      /\ EffectiveDefault = MISSING_PROP
      /\ ret.kind = "fields" )
    => \A i \in DOMAIN ret.fields : ret.fields[i].default = MISSING_PROP

(***************************************************************************)
(* C8  No returned field list holds two entries with the same name.        *)
(***************************************************************************)
C8_NoDuplicateNames ==
    ret.kind = "fields" =>
        \A i, j \in DOMAIN ret.fields :
            i # j => ret.fields[i].name # ret.fields[j].name

(***************************************************************************)
(* C9  A variable-length container with a declared element type and a      *)
(* missing sentinel as default: over an element type that is not           *)
(* decomposable the classifier answers not-decomposable and                *)
(* is_nested_type answers False; over a record element type both raise    *)
(* the unsupported-annotation error.                                       *)
(***************************************************************************)
C9_VariableLengthNoDefault ==
    ( /\ op \in {TryOp, "is_nested_type"}
      /\ IsVariableLength(call.f)
      /\ call.default \in MISSING_SINGLETONS )
    => LET contained == ContainedType(call.f)
           alone == try_field_list_from_callable(contained, MISSING_NONPROP)
       IN /\ (contained.k = "known" \/ alone.kind = "unsupported") =>
                ret.kind = (IF op = TryOp THEN "unsupported" ELSE "False")
          /\ contained.k \in RecordKinds =>
                /\ ret.kind = "raise"
                /\ ret.message = UnsupportedTypeAnnotationError

\* is_nested_type(List[Config], MISSING_PROP) raised
C9_Witness ==
    /\ op = "is_nested_type"
    /\ call.f = ListOf(Config) /\ call.default = MISSING_PROP
    /\ ret.kind = "raise"

(***************************************************************************)
(* C10  Every FieldDefinition with Fixed or Suppress among its markers has *)
(* a default that is no missing sentinel; make and add_markers raise the   *)
(* unsupported-annotation error instead of building one that has not.      *)
(***************************************************************************)
C10_FixedOrSuppressHasDefault ==
    /\ \A i \in DOMAIN ret.fields :
          NeedsDefault(ret.fields[i].markers) =>
             ret.fields[i].default \notin MISSING_SINGLETONS
    /\ ( /\ op = "FieldDefinition.make"
         /\ NeedsDefault(call.f.markers \cup call.markers)
         /\ call.default \in MISSING_SINGLETONS )
       => ret = Raised(UnsupportedTypeAnnotationError)
    /\ ( /\ op = "FieldDefinition.add_markers"
         /\ NeedsDefault(call.field[1].markers \cup call.markers)
         /\ call.field[1].default \in MISSING_SINGLETONS )
       => ret = Raised(UnsupportedTypeAnnotationError)
    /\ ( /\ op = "field_list_from_callable"
         /\ NeedsDefault(call.f.markers)
         /\ ret.kind = "fields" )
       => \A i \in DOMAIN ret.fields :
             /\ NeedsDefault(ret.fields[i].markers)
             /\ ret.fields[i].default \notin MISSING_SINGLETONS

\* add_markers((Fixed,)) on a field without a default raised
C10_Witness ==
    /\ op = "FieldDefinition.add_markers"
    /\ call.markers = {Fixed}
    /\ call.field[1].markers = {}
    /\ call.field[1].default = MISSING_NONPROP
    /\ ret = Raised(UnsupportedTypeAnnotationError)

(***************************************************************************)
(* C11  For every type of the allow-list of known types and every default  *)
(* the classifier answers not-decomposable: no decomposition runs and      *)
(* nothing is raised.                                                      *)
(***************************************************************************)
C11_AllowListIsLeaf ==
    ( /\ op = TryOp
      /\ call.f \in known_parsable_types )
    => ret.kind = "unsupported"

(***************************************************************************)
(* C12  A general callable: with a concrete default it is not              *)
(* decomposable; with none, an unannotated keyword-only parameter raises,  *)
(* else an unannotated positional-or-keyword parameter makes it not        *)
(* decomposable, else there is one field per parameter.                    *)
(***************************************************************************)
C12_GeneralCallable ==
    ( /\ op = TryOp
      /\ call.f.k = "callable" )
    => LET params == CallableTable[call.f.n].params
           lacks(kind) == \E i \in DOMAIN params :
                             ~params[i].has_hint /\ params[i].kind = kind
       IN IF call.default \notin MISSING_SINGLETONS
          THEN ret.kind = "unsupported"
          ELSE IF lacks("KEYWORD_ONLY") THEN ret.kind = "raise"
          ELSE IF lacks("POSITIONAL_OR_KEYWORD") THEN ret.kind = "unsupported"
          ELSE /\ ret.kind = "fields"
               /\ Len(ret.fields) = Len(params)
               /\ \A i \in DOMAIN params : ret.fields[i].name = params[i].name

\* the declared fields of a record, and those that are constructor parameters
DeclaredFields(f) == RecordTable[f.n].fields
InitFieldIndices(f) == { i \in DOMAIN DeclaredFields(f) : DeclaredFields(f)[i].init }
ResolvedWithoutDefault ==
    /\ op = TryOp
    /\ call.f.k \in RecordKinds
    /\ EffectiveDefault \in MISSING_SINGLETONS

(***************************************************************************)
(* C13 (as stated)  A record resolved with no default yields exactly one   *)
(* FieldDefinition per declared field, in declaration order.               *)
(***************************************************************************)
C13_OnePerDeclaredField ==
    ResolvedWithoutDefault =>
        /\ ret.kind = "fields"
        /\ Len(ret.fields) = Len(DeclaredFields(call.f))
        /\ \A i \in DOMAIN ret.fields :
              ret.fields[i].call_argname = StrV(DeclaredFields(call.f)[i].name)

(***************************************************************************)
(* C13 (amended)  A record resolved with no default either raises, and     *)
(* then a declared field carries Fixed or Suppress or the record is a      *)
(* TypedDict that is not total, or yields exactly one FieldDefinition per  *)
(* declared field that is a constructor parameter (init=True), in          *)
(* declaration order, none left out and none repeated.                     *)
(***************************************************************************)
C13_OnePerInitField ==
    ResolvedWithoutDefault =>
        LET decl == DeclaredFields(call.f)
            init == InitFieldIndices(call.f)
            \* the position among the constructor parameters of declared field i
            rank(i) == Cardinality({ j \in init : j <= i })
        IN /\ ret.kind \in {"fields", "raise"}
           /\ ret.kind = "raise" =>
                 \/ \E i \in init : NeedsDefault(decl[i].typ.markers)
                 \/ RecordTable[call.f.n].kind = "typeddict"
                      /\ ~RecordTable[call.f.n].total
           /\ ret.kind = "fields" =>
                 /\ Len(ret.fields) = Cardinality(init)
                 /\ \A i \in init :
                       ret.fields[rank(i)].call_argname = StrV(decl[i].name)

\* the dataclass Nest, with two constructor fields and one init=False field,
\* resolved without a default gave two fields
C13_Witness ==
    /\ op = TryOp
    /\ call.f = RecordTypeOf("Nest")
    /\ call.default = MISSING_NONPROP
    /\ ret.kind = "fields"
    /\ Len(ret.fields) = 2
    /\ Len(DeclaredFields(call.f)) = 3

(***************************************************************************)
(* Definitions used to state the properties of apply                       *)
(***************************************************************************)
\* the places (group, position) of a parser that hold the action called name
PlacesOf(p, name) ==
    UNION { { <<g, k>> : k \in { n \in DOMAIN p.action_groups[g].actions :
                                   p.action_groups[g].actions[n] = name } } :
            g \in DOMAIN p.action_groups }
RECURSIVE CountActions(_)
CountActions(groups) ==
    IF groups = <<>> THEN 0
    ELSE Len(Head(groups).actions) + CountActions(Tail(groups))

\* parser p holds what definition def asks for, and nothing else
RECURSIVE AppliedAs(_, _)
AppliedAs(def, p) ==
    /\ p.action_groups[1].title = "required arguments"
    /\ CountActions(p.action_groups) = Len(def.args)
    /\ \A i \in DOMAIN def.args :
          /\ Cardinality(PlacesOf(p, def.args[i].name)) = 1
          /\ \A gk \in PlacesOf(p, def.args[i].name) :
                p.action_groups[gk[1]].title =
                    IF def.args[i].required THEN "required arguments"
                    ELSE "optional arguments"
    /\ \A i, j \in DOMAIN def.args :
          (i < j /\ def.args[i].required = def.args[j].required) =>
             \A gi \in PlacesOf(p, def.args[i].name) :
             \A gj \in PlacesOf(p, def.args[j].name) : gi[2] < gj[2]
    /\ IF def.subparsers = None THEN p.subparsers = None
       ELSE /\ p.subparsers # None
            /\ LET sp == def.subparsers[1]
                   made == p.subparsers[1]
               IN /\ made.required = sp.required
                  /\ made.dest = sp.name
                  /\ Len(made.parsers) = Len(sp.parsers)
                  /\ \A i \in DOMAIN sp.parsers :
                        /\ made.parsers[i].name = sp.parsers[i].key
                        /\ AppliedAs(sp.parsers[i].value, made.parsers[i].parser)

(***************************************************************************)
(* C14  apply adds every argument of the definition exactly once, the      *)
(* required ones to the required group, which is the first group of the    *)
(* parser, the others to the parser's own optional group, each in the      *)
(* order of args; every variant's sub-parser holds exactly what applying   *)
(* the variant's own definition gives, under the group's required flag.    *)
(***************************************************************************)
C14_ApplyAddsEachOnce ==
    pc = "applied" => AppliedAs(result[1], parser[1])

\* a definition with an optional argument and a subcommand group was applied;
\* one variant has a required argument, one has a subcommand group of its own
C14_Witness ==
    /\ pc = "applied"
    /\ \E i \in DOMAIN result[1].args : ~result[1].args[i].required
    /\ result[1].subparsers # None
    /\ \E i \in DOMAIN result[1].subparsers[1].parsers :
          \E k \in DOMAIN result[1].subparsers[1].parsers[i].value.args :
             result[1].subparsers[1].parsers[i].value.args[k].required
    /\ \E i \in DOMAIN parser[1].subparsers[1].parsers :
          parser[1].subparsers[1].parsers[i].parser.subparsers # None

(***************************************************************************)
(* C15  Under a parent default other than Propagating-Missing a dataclass  *)
(* field gets: the parent's attribute of its name when the parent default  *)
(* is concrete and has it; else its own declared default, or what its      *)
(* default factory returns; else Nonpropagating-Missing.  A parent without *)
(* the attribute raises nothing, and a factory that is the field's own     *)
(* record type counts as no default.                                       *)
(***************************************************************************)
C15_ChildDefaultPriority ==
    ( /\ op = TryOp
      /\ call.f.k = "dataclass"
      /\ EffectiveDefault # MISSING_PROP )
    => LET decl == DeclaredFields(call.f)
           init == InitFieldIndices(call.f)
           rank(i) == Cardinality({ j \in init : j <= i })
           parent == EffectiveDefault
           concrete == parent \notin MISSING_SINGLETONS /\ parent # PyNone
           fromParent(d) ==
               /\ concrete /\ parent.vk = "instance"
               /\ \E k \in DOMAIN parent.items : parent.items[k].key = StrV(d.name)
           declares(d) ==
               \/ d.default # DATACLASSES_MISSING
               \/ d.factory # None /\ ~(d.typ.k = "dataclass" /\ d.factory_is_type)
           expected(d) ==
               CASE fromParent(d) ->
                       parent.items[CHOOSE k \in DOMAIN parent.items :
                                       parent.items[k].key = StrV(d.name)].value
                 [] ~fromParent(d) /\ declares(d) ->
                       IF d.default # DATACLASSES_MISSING THEN d.default
                       ELSE d.factory[1]
                 [] OTHER -> MISSING_NONPROP
       IN /\ ret.kind = "raise" =>
                \E i \in init : NeedsDefault(decl[i].typ.markers)
          /\ ret.kind = "fields" =>
                \A i \in init : ret.fields[rank(i)].default = expected(decl[i])

\* Config resolved under an instance that has a and b but differs from the
\* declared default of b
C15_Witness ==
    /\ op = TryOp
    /\ call.f = Config
    /\ call.default = ConfigInstance(IntV("1"), IntV("2"))
    /\ ret.kind = "fields"
    /\ ret.fields[2].default = IntV("2")
    /\ DeclaredFields(Config)[2].default = IntV("5")

(***************************************************************************)
(* Definitions used to state the properties of the field-role map          *)
(***************************************************************************)
\* the role the declared type of a field determines
RoleOfField(field) ==
    IF is_dataclass(field.type) THEN "NESTED_DATACLASS"
    ELSE IF IsSubparserUnion(field.type) THEN "SUBPARSERS"
    ELSE "VANILLA_FIELD"
FieldNamed(cid, name) ==
    LET fields == Class(cid).fields
    IN fields[CHOOSE i \in DOMAIN fields : fields[i].name = name]
\* this step ends the iteration of frame n over a field with init=True, which
\* is when role_from_field[field] is assigned
EndsIteration(n) ==
    /\ n \in DOMAIN stack /\ n \in DOMAIN stack'
    /\ Len(stack') = n
    /\ stack[n].phase \in {"fields", "nested", "union"}
    /\ stack'[n].phase = "fields"
    /\ stack'[n].idx = stack[n].idx + 1
    /\ CurrentField(stack[n]).init
AssignedKey(n) == <<stack[n].cls, CurrentField(stack[n]).name>>

IsFixedLengthTuple(f) ==
    f.k = "tuple" /\ \A i \in DOMAIN f.args : f.args[i] # Ellipsis
\* the positional types: those of the annotation, else the runtime types of
\* the default's elements
PositionTypes(f, default) ==
    IF f.args # <<>> THEN f.args
    ELSE [i \in DOMAIN default.items |-> TypeOf(default.items[i])]
PositionDefault(default, i) ==
    IF default \in Sentinels THEN default ELSE default.items[i]
\* the default fits the tuple type: a sentinel for an annotated tuple, or a
\* tuple with one element per position
FitsTuple(f, default) ==
    \/ default \in Sentinels /\ f.args # <<>>
    \/ default.vk = "tuple" /\ (f.args = <<>> \/ Len(default.items) = Len(f.args))

C18_VariableLengthWithDefault ==
    ( /\ op = TryOp
      /\ call.f.k = "list" \/ IsVariableLength(call.f)
      /\ call.default.vk \in {"list", "tuple"} )
    => LET elements == call.default.items
           element_type == IF call.f.args = <<>> THEN TypeOf(elements[1])
                           ELSE ContainedType(call.f)
       IN /\ ret.kind \in {"fields", "unsupported"}
          /\ ret.kind = "fields" <=>
                \E i \in DOMAIN elements :
                   is_nested_type(TypeOf(elements[i]), elements[i]).nested
          /\ ret.kind = "fields" =>
                /\ Len(ret.fields) = Len(elements)
                /\ \A i \in DOMAIN elements :
                      /\ ret.fields[i].name = IndexName(i - 1)
                      /\ ret.fields[i].default = elements[i]
                      /\ ret.fields[i].typ = element_type

(***************************************************************************)
(* Definitions used to state the properties of the active path             *)
(***************************************************************************)
\* the record types of the calls below frame n of a stack
AncestorsOf(stk, n) == { stk[m].cls : m \in 1..(n - 1) }
PathIsAncestors(stk) ==
    \A n \in DOMAIN stk : stk[n].parent_dataclasses = AncestorsOf(stk, n)

(***************************************************************************)
(* C19  The set of record types a call of from_dataclass holds is the set  *)
(* of its ancestors: a call gets its caller's set plus the caller's type,  *)
(* no step changes the set of a call that is on the stack, and the cyclic  *)
(* error is never raised for a record that does not contain itself, also   *)
(* when a record type occurs on sibling branches.                          *)
(***************************************************************************)
C19_PathSetIsPerCall ==
    [][ /\ PathIsAncestors(stack')
        /\ \A n \in DOMAIN stack :
              (n \in DOMAIN stack' /\ n < Len(stack)) =>
                 stack'[n].parent_dataclasses = stack[n].parent_dataclasses
        /\ Len(stack') = Len(stack) + 1 =>
              stack'[Len(stack')].parent_dataclasses =
                 stack[Len(stack)].parent_dataclasses \cup {stack[Len(stack)].cls}
        /\ error' = CyclicError => ReachesCycle(top.n, TRUE) ]_vars

\* Root with two sibling fields of the record type Pair was resolved
C19_Witness ==
    /\ pc = "done" /\ error = ""
    /\ top = RootTop
    /\ \A i \in DOMAIN rootFields :
          rootFields[i].init /\ rootFields[i].type = Dataclass("Pair", <<>>)
    /\ Len(result[1].args) = 2 * NumRootFields

====
